---- MODULE Spec2Model ----
(***************************************************************************)
(* GPT-Image interactive editor (src/app.py).                              *)
(*                                                                         *)
(* The program is a Streamlit script: every user interaction (choosing or  *)
(* removing a file in the uploader, clicking "Reset session", clicking the *)
(* download button, submitting a prompt) re-runs the whole script from the *)
(* top against the persistent st.session_state.  One action of this model  *)
(* is one such script run, from line 1 to the end of the file or to the    *)
(* point where the run stops (st.stop() or an uncaught exception).         *)
(*                                                                         *)
(* Text is modelled as a sequence of one-character strings, raw bytes as a *)
(* sequence of integers 0..255, base64 text as a sequence of characters of *)
(* the base64 alphabet.                                                    *)
(***************************************************************************)
EXTENDS Integers, Sequences, FiniteSets, TLC

(***************************************************************************)
(* Bounds of the model.                                                    *)
(***************************************************************************)
\* Total cost of the prompt submissions of one behaviour: a submission
\* costs 1, plus 1 per output item of its response, plus 1 per content
\* piece of its message items.
MaxReceived == 4

(***************************************************************************)
(* Python values.                                                          *)
(***************************************************************************)
\* Python's None, where a string is expected.
None == <<"None">>

\* No file in the uploader (file_uploader returns None).
NoFile == <<-1>>

\* binascii.Error raised by base64.b64decode.
DecodeError == <<-2>>

\* Truth value of an optional string: None and "" are false.
Truthy(x) == x # None /\ x # <<>>

\* str.isspace() for one character.
IsSpace(c) == c \in {" ", "\n", "\t", "\r"}

RECURSIVE LStrip(_)
LStrip(s) ==
  IF s = <<>> THEN <<>>
  ELSE IF IsSpace(Head(s)) THEN LStrip(Tail(s)) ELSE s

RECURSIVE RStrip(_)
RStrip(s) ==
  IF s = <<>> THEN <<>>
  ELSE IF IsSpace(s[Len(s)]) THEN RStrip(SubSeq(s, 1, Len(s) - 1)) ELSE s

\* str.strip()
Strip(s) == RStrip(LStrip(s))

\* sep.join(list)
RECURSIVE Join(_, _)
Join(sep, list) ==
  IF list = <<>> THEN <<>>
  ELSE IF Len(list) = 1 THEN list[1]
  ELSE list[1] \o sep \o Join(sep, Tail(list))

(***************************************************************************)
(* base64 (lines 38-39).                                                   *)
(***************************************************************************)
Alphabet ==
  << "A","B","C","D","E","F","G","H","I","J","K","L","M","N","O","P",
     "Q","R","S","T","U","V","W","X","Y","Z","a","b","c","d","e","f",
     "g","h","i","j","k","l","m","n","o","p","q","r","s","t","u","v",
     "w","x","y","z","0","1","2","3","4","5","6","7","8","9","+","/" >>

Pad == "="

B64Char(i) == Alphabet[i + 1]

B64Index(c) == CHOOSE i \in 0..63 : Alphabet[i + 1] = c

\* encode_b64 = lambda b: base64.b64encode(b).decode("utf-8")
RECURSIVE encode_b64(_)
encode_b64(b) ==
  IF Len(b) = 0 THEN <<>>
  ELSE IF Len(b) = 1 THEN
    << B64Char(b[1] \div 4), B64Char((b[1] % 4) * 16), Pad, Pad >>
  ELSE IF Len(b) = 2 THEN
    << B64Char(b[1] \div 4),
       B64Char((b[1] % 4) * 16 + (b[2] \div 16)),
       B64Char((b[2] % 16) * 4), Pad >>
  ELSE
    << B64Char(b[1] \div 4),
       B64Char((b[1] % 4) * 16 + (b[2] \div 16)),
       B64Char((b[2] % 16) * 4 + (b[3] \div 64)),
       B64Char(b[3] % 64) >> \o encode_b64(SubSeq(b, 4, Len(b)))

\* The bytes of one group of four base64 characters.
DecodeQuad(q) ==
  LET i1 == B64Index(q[1])
      i2 == B64Index(q[2])
  IN IF q[3] = Pad THEN << i1 * 4 + (i2 \div 16) >>
     ELSE LET i3 == B64Index(q[3])
          IN IF q[4] = Pad
             THEN << i1 * 4 + (i2 \div 16), (i2 % 16) * 16 + (i3 \div 4) >>
             ELSE << i1 * 4 + (i2 \div 16), (i2 % 16) * 16 + (i3 \div 4),
                     (i3 % 4) * 64 + B64Index(q[4]) >>

RECURSIVE DecodeQuads(_)
DecodeQuads(s) ==
  IF s = <<>> THEN <<>>
  ELSE DecodeQuad(SubSeq(s, 1, 4)) \o DecodeQuads(SubSeq(s, 5, Len(s)))

\* decode_b64 = lambda s: base64.b64decode(s); a string whose length is not
\* a multiple of four raises binascii.Error.
decode_b64(s) ==
  IF Len(s) % 4 # 0 THEN DecodeError ELSE DecodeQuads(s)


(***************************************************************************)
(* Inputs: what the user and the remote service can hand to the script.    *)
(***************************************************************************)
\* Files the user can put in the uploader: one of one byte and one of two
\* bytes (the two padded forms of base64).
Files == { <<77>>, <<255, 216>> }

\* The edit request typed in the chat input (non-empty: `if user_prompt`).
Prompts == { <<"p">> }

\* Content pieces of a message item: text pieces (empty, blank, a letter)
\* and a refusal piece, which has no text attribute.
Pieces ==
  { [type |-> "output_text", text |-> t] : t \in { <<>>, <<" ">>, <<"a">> } }
    \cup { [type |-> "refusal"] }

\* Results of an image_generation_call item: missing, empty, two images,
\* and a string that is not base64.
ImageResults ==
  { None, <<>>, encode_b64(<<137, 80, 78>>), encode_b64(<<71, 73>>), <<"A">> }

\* Output items of cost c: one for the item, one per content piece.
ItemsOfCost(c) ==
  IF c = 1
  THEN { [type |-> "image_generation_call", result |-> r] : r \in ImageResults }
         \cup { [type |-> "reasoning"] }
         \cup { [type |-> "message"] }
         \cup { [type |-> "message", content |-> <<>>] }
  ELSE { [type |-> "message", content |-> c1] : c1 \in [1..(c - 1) -> Pieces] }

\* Output lists of total cost exactly n.
OutputsOfCost[n \in 0..MaxReceived] ==
  IF n = 0 THEN { <<>> }
  ELSE UNION { { <<it>> \o rest : it \in ItemsOfCost(k),
                                   rest \in OutputsOfCost[n - k] } : k \in 1..n }

\* The remote call raised (transport or service error).
CallError == [raised |-> TRUE, output |-> <<>>]

\* No remote call was issued in the run.
NoResponse == [raised |-> FALSE, output |-> <<>>]

\* Outcomes of client.responses.create whose submission costs at most c.
ResponsesWithin[c \in 0..MaxReceived] ==
  IF c < 1 THEN {}
  ELSE { CallError } \cup
       { [raised |-> FALSE, output |-> o] :
           o \in UNION { OutputsOfCost[n] : n \in 0..(c - 1) } }

RECURSIVE OutputCost(_)
OutputCost(output) ==
  IF output = <<>> THEN 0
  ELSE 1 + (IF "content" \in DOMAIN Head(output)
            THEN Len(Head(output).content) ELSE 0) + OutputCost(Tail(output))

Cost(response) == 1 + OutputCost(response.output)

(***************************************************************************)
(* The script, section by section.  A session value s is the record of the *)
(* four st.session_state entries of lines 45-54.                           *)
(***************************************************************************)
\* Lines 45-54: the session state of a new session.
NewSession ==
  [ original_image_b64 |-> None,
    last_image_b64     |-> None,
    chat_history       |-> <<>>,
    chat_display       |-> <<>> ]

\* A reset that forgets chat_history.clear() (line 72).
ResetSession_KeepsHistory(s) ==
  [ original_image_b64 |-> None,
    last_image_b64     |-> None,
    chat_history       |-> s.chat_history,
    chat_display       |-> <<>> ]

\* Lines 69-74: the body of `if st.button("Reset session")`.
ResetSession(s) ==
  [ original_image_b64 |-> None,
    last_image_b64     |-> None,
    chat_history       |-> <<>>,
    chat_display       |-> <<>> ]

\* A download button is not rendered.
NoDownload == [offered |-> FALSE, data |-> <<>>]

\* Lines 77-84: the download button and the data attached to it.
DownloadButton(s) ==
  IF Truthy(s.last_image_b64)
  THEN [offered |-> TRUE, data |-> decode_b64(s.last_image_b64)]
  ELSE NoDownload

\* An ingestion without the `original_image_b64 is None` test (line 92).
IngestUpload_Always(s, file) ==
  IF file # NoFile
  THEN [ original_image_b64 |-> encode_b64(file),
         last_image_b64     |-> encode_b64(file),
         chat_history       |-> <<>>,
         chat_display       |-> <<>> ]
  ELSE s

\* Lines 92-96: the uploaded file becomes the original and the latest image.
IngestUpload(s, file) ==
  IF file # NoFile /\ s.original_image_b64 = None
  THEN [ original_image_b64 |-> encode_b64(file),
         last_image_b64     |-> encode_b64(file),
         chat_history       |-> <<>>,
         chat_display       |-> <<>> ]
  ELSE s

\* Lines 98-105: st.image(decode_b64(last_image_b64)) raises on a string
\* that is not base64.
CurrentImageRaises(s) ==
  Truthy(s.last_image_b64) /\ decode_b64(s.last_image_b64) = DecodeError

\* History turns all tagged input_text (line 125 without the role test).
RECURSIVE OlderTurns_AllInput(_)
OlderTurns_AllInput(history) ==
  IF history = <<>> THEN <<>>
  ELSE LET msg == Head(history)
       IN << [ role    |-> msg.role,
               content |-> << [type |-> "input_text", text |-> msg.text] >> ] >>
          \o OlderTurns_AllInput(Tail(history))

\* Lines 124-135: one request turn per chat_history entry.
RECURSIVE OlderTurns(_)
OlderTurns(history) ==
  IF history = <<>> THEN <<>>
  ELSE LET msg == Head(history)
           input_type == IF msg.role = "user" THEN "input_text" ELSE "output_text"
       IN << [ role    |-> msg.role,
               content |-> << [type |-> input_type, text |-> msg.text] >> ] >>
          \o OlderTurns(Tail(history))

\* str() of an optional string inside an f-string.
Format(x) == IF x = None THEN << "N", "o", "n", "e" >> ELSE x

\* Lines 115-150.
build_payload(s, user_prompt) ==
  OlderTurns(s.chat_history) \o
  << [ role    |-> "user",
       content |-> << [type |-> "input_text", text |-> user_prompt],
                      [type      |-> "input_image",
                       image_url |-> << "data:image/jpeg;base64," >>
                                       \o Format(s.last_image_b64)] >> ] >>

\* getattr(c, "text", None)
GetText(c) == IF "text" \in DOMAIN c THEN c.text ELSE None

\* Lines 174-177: the inner loop over the content pieces of a message.
RECURSIVE CollectText(_, _)
CollectText(content, assistant_text) ==
  IF content = <<>> THEN assistant_text
  ELSE LET txt == GetText(Head(content))
       IN CollectText(Tail(content),
                      IF Truthy(txt) THEN Append(assistant_text, txt)
                      ELSE assistant_text)

\* A loop that keeps the first image result instead of the last (line 180
\* guarded by `assistant_img_b64 is None`).
RECURSIVE ParseOutput_FirstImage(_, _, _)
ParseOutput_FirstImage(output, assistant_text, assistant_img_b64) ==
  IF output = <<>>
  THEN [ raised            |-> FALSE,
         assistant_text    |-> assistant_text,
         assistant_img_b64 |-> assistant_img_b64 ]
  ELSE LET out == Head(output)
       IN IF out.type = "message"
          THEN IF "content" \in DOMAIN out
               THEN ParseOutput_FirstImage(Tail(output),
                                           CollectText(out.content, assistant_text),
                                           assistant_img_b64)
               ELSE [ raised            |-> TRUE,
                      assistant_text    |-> assistant_text,
                      assistant_img_b64 |-> assistant_img_b64 ]
          ELSE IF out.type = "image_generation_call"
          THEN ParseOutput_FirstImage(Tail(output), assistant_text,
                                      IF assistant_img_b64 = None THEN out.result
                                      ELSE assistant_img_b64)
          ELSE ParseOutput_FirstImage(Tail(output), assistant_text,
                                      assistant_img_b64)

\* Lines 168-180: the loop over response.output.  A message item without a
\* content attribute raises.
RECURSIVE ParseOutput(_, _, _)
ParseOutput(output, assistant_text, assistant_img_b64) ==
  IF output = <<>>
  THEN [ raised            |-> FALSE,
         assistant_text    |-> assistant_text,
         assistant_img_b64 |-> assistant_img_b64 ]
  ELSE LET out == Head(output)
       IN IF out.type = "message"
          THEN IF "content" \in DOMAIN out
               THEN ParseOutput(Tail(output),
                                CollectText(out.content, assistant_text),
                                assistant_img_b64)
               ELSE [ raised            |-> TRUE,
                      assistant_text    |-> assistant_text,
                      assistant_img_b64 |-> assistant_img_b64 ]
          ELSE IF out.type = "image_generation_call"
          THEN ParseOutput(Tail(output), assistant_text, out.result)
          ELSE ParseOutput(Tail(output), assistant_text, assistant_img_b64)

\* Lines 188-193: the user turn.
AppendUser(s, user_prompt) ==
  [ s EXCEPT
      !.chat_history = Append(@, [role |-> "user", text |-> user_prompt]),
      !.chat_display = Append(@, [role |-> "user", kind |-> "text",
                                  data |-> user_prompt]) ]

\* Lines 196-202: the assistant text.
AppendAssistantText(s, full_assistant_text) ==
  IF Truthy(full_assistant_text)
  THEN [ s EXCEPT
           !.chat_history = Append(@, [role |-> "assistant",
                                       text |-> full_assistant_text]),
           !.chat_display = Append(@, [role |-> "assistant", kind |-> "text",
                                       data |-> full_assistant_text]) ]
  ELSE s

\* An image update without the `if assistant_img_b64` test (line 205) on the
\* assignment of line 206.
AppendAssistantImage_Unconditional(s, assistant_img_b64) ==
  IF Truthy(assistant_img_b64)
  THEN [ s EXCEPT
           !.last_image_b64 = assistant_img_b64,
           !.chat_display = Append(@, [role |-> "assistant", kind |-> "image",
                                       data |-> assistant_img_b64]) ]
  ELSE [ s EXCEPT !.last_image_b64 = assistant_img_b64 ]

\* Lines 205-209: the assistant image.
AppendAssistantImage(s, assistant_img_b64) ==
  IF Truthy(assistant_img_b64)
  THEN [ s EXCEPT
           !.last_image_b64 = assistant_img_b64,
           !.chat_display = Append(@, [role |-> "assistant", kind |-> "image",
                                       data |-> assistant_img_b64]) ]
  ELSE s

\* Lines 188-209.
UpdateSession(s, user_prompt, full_assistant_text, assistant_img_b64) ==
  AppendAssistantImage(
    AppendAssistantText(AppendUser(s, user_prompt), full_assistant_text),
    assistant_img_b64)

\* Lines 214-219: rendering raises on an image entry that is not base64.
RenderRaises(display) ==
  \E k \in 1..Len(display) :
    display[k].kind = "image" /\ decode_b64(display[k].data) = DecodeError

\* No request was built in the run.
NoPayload == <<>>

\* A handler that appends the user turn (lines 188-193) before the remote
\* call instead of after it.
PromptHandler_UserTurnFirst(s, user_prompt, response) ==
  IF s.original_image_b64 = None
  THEN [state |-> s, payload |-> NoPayload, outcome |-> "missing_image"]
  ELSE LET payload == build_payload(s, user_prompt)
           s0 == AppendUser(s, user_prompt)
       IN IF response.raised
          THEN [state |-> s0, payload |-> payload, outcome |-> "call_error"]
          ELSE LET parsed == ParseOutput(response.output, <<>>, None)
                   full_assistant_text ==
                     Strip(Join(<< "\n" >>, parsed.assistant_text))
                   s1 == AppendAssistantImage(
                           AppendAssistantText(s0, full_assistant_text),
                           parsed.assistant_img_b64)
               IN IF parsed.raised
                  THEN [state |-> s0, payload |-> payload,
                        outcome |-> "parse_error"]
                  ELSE [state |-> s1, payload |-> payload,
                        outcome |-> IF RenderRaises(s1.chat_display)
                                    THEN "decode_error" ELSE "done"]

\* A handler without the missing-image guard of lines 154-156.
PromptHandler_NoGuard(s, user_prompt, response) ==
  LET payload == build_payload(s, user_prompt)
  IN IF response.raised
     THEN [state |-> s, payload |-> payload, outcome |-> "call_error"]
     ELSE LET parsed == ParseOutput(response.output, <<>>, None)
              full_assistant_text ==
                Strip(Join(<< "\n" >>, parsed.assistant_text))
              s1 == UpdateSession(s, user_prompt, full_assistant_text,
                                  parsed.assistant_img_b64)
          IN IF parsed.raised
             THEN [state |-> s, payload |-> payload, outcome |-> "parse_error"]
             ELSE [state |-> s1, payload |-> payload,
                   outcome |-> IF RenderRaises(s1.chat_display)
                               THEN "decode_error" ELSE "done"]

\* Lines 153-219: the body of `if user_prompt`.
PromptHandler(s, user_prompt, response) ==
  IF s.original_image_b64 = None
  THEN [state |-> s, payload |-> NoPayload, outcome |-> "missing_image"]
  ELSE LET payload == build_payload(s, user_prompt)
       IN IF response.raised
          THEN [state |-> s, payload |-> payload, outcome |-> "call_error"]
          ELSE LET parsed == ParseOutput(response.output, <<>>, None)
                   full_assistant_text ==
                     Strip(Join(<< "\n" >>, parsed.assistant_text))
                   s1 == UpdateSession(s, user_prompt, full_assistant_text,
                                       parsed.assistant_img_b64)
               IN IF parsed.raised
                  THEN [state |-> s, payload |-> payload,
                        outcome |-> "parse_error"]
                  ELSE [state |-> s1, payload |-> payload,
                        outcome |-> IF RenderRaises(s1.chat_display)
                                    THEN "decode_error" ELSE "done"]

\* One run of the script: reset is the value of the reset button, file the
\* value of the uploader, user_prompt the value of the chat input (None when
\* nothing was submitted), response what the remote call gives if issued.
ScriptRun(s, reset, file, user_prompt, response) ==
  LET s1 == IF reset THEN ResetSession(s) ELSE s
      button == DownloadButton(s1)
      s2 == IngestUpload(s1, file)
  IN IF button.offered /\ button.data = DecodeError
     THEN [state |-> s1, download |-> NoDownload, payload |-> NoPayload,
           outcome |-> "decode_error"]
     ELSE IF CurrentImageRaises(s2)
     THEN [state |-> s2, download |-> button, payload |-> NoPayload,
           outcome |-> "decode_error"]
     ELSE IF user_prompt = None
     THEN [state |-> s2, download |-> button, payload |-> NoPayload,
           outcome |-> "done"]
     ELSE LET r == PromptHandler(s2, user_prompt, response)
          IN [state |-> r.state, download |-> button, payload |-> r.payload,
              outcome |-> r.outcome]

(***************************************************************************)
(* State.                                                                  *)
(***************************************************************************)
VARIABLES
  original_image_b64,  \* st.session_state.original_image_b64 (line 45)
  last_image_b64,      \* st.session_state.last_image_b64 (line 46)
  chat_history,        \* st.session_state.chat_history (line 50)
  chat_display,        \* st.session_state.chat_display (line 54)
  uploaded,            \* the file held by the uploader widget (line 63)
  download,            \* the download button on the page (lines 77-84)
  run,                 \* the latest script run: the prompt it was given,
                       \* the request it sent, the response it received
                       \* and how it ended
  spent                \* cost of the prompt submissions so far

vars ==
  << original_image_b64, last_image_b64, chat_history, chat_display,
     uploaded, download, run, spent >>

\* The session state as one value.
Session ==
  [ original_image_b64 |-> original_image_b64,
    last_image_b64     |-> last_image_b64,
    chat_history       |-> chat_history,
    chat_display       |-> chat_display ]

\* A browser opens the page: the first script run of a new session.
Init ==
  /\ original_image_b64 = NewSession.original_image_b64
  /\ last_image_b64 = NewSession.last_image_b64
  /\ chat_history = NewSession.chat_history
  /\ chat_display = NewSession.chat_display
  /\ uploaded = NoFile
  /\ download = DownloadButton(NewSession)
  /\ run = [ user_prompt |-> None,
             response    |-> NoResponse,
             payload     |-> NoPayload,
             outcome     |-> "done" ]
  /\ spent = 0

\* The script runs once with the given widget values.
Rerun(reset, file, user_prompt, response) ==
  LET r == ScriptRun(Session, reset, file, user_prompt, response)
      called == r.payload # NoPayload
  IN /\ original_image_b64' = r.state.original_image_b64
     /\ last_image_b64' = r.state.last_image_b64
     /\ chat_history' = r.state.chat_history
     /\ chat_display' = r.state.chat_display
     /\ uploaded' = file
     /\ download' = r.download
     /\ run' = [ user_prompt |-> user_prompt,
                 response    |-> IF called THEN response ELSE NoResponse,
                 payload     |-> r.payload,
                 outcome     |-> r.outcome ]
     /\ spent' = IF user_prompt = None THEN spent
                 ELSE IF called THEN spent + Cost(response) ELSE spent + 1

\* The user puts a file in the uploader (line 63).
UploadFile ==
  \E file \in Files :
    /\ file # uploaded
    /\ Rerun(FALSE, file, None, NoResponse)

\* The user removes the file from the uploader (line 63).
RemoveFile ==
  /\ uploaded # NoFile
  /\ Rerun(FALSE, NoFile, None, NoResponse)

\* The user clicks "Reset session" (line 69); the uploader keeps the file
\* it holds.
ClickReset ==
  /\ uploaded \in Files \cup { NoFile }
  /\ Rerun(TRUE, uploaded, None, NoResponse)

\* The user clicks the download button (line 78).
ClickDownload ==
  /\ download.offered
  /\ Rerun(FALSE, uploaded, None, NoResponse)

\* The run given this prompt reaches the remote call of line 159.
CallIssued(user_prompt) ==
  ScriptRun(Session, FALSE, uploaded, user_prompt, CallError).payload
    # NoPayload

\* The user submits an edit request (line 112); the service answers if the
\* run calls it.
SubmitPrompt ==
  \E user_prompt \in Prompts :
    IF CallIssued(user_prompt)
    THEN \E response \in ResponsesWithin[MaxReceived - spent] :
           Rerun(FALSE, uploaded, user_prompt, response)
    ELSE /\ spent < MaxReceived
         /\ Rerun(FALSE, uploaded, user_prompt, NoResponse)

Next ==
  \/ UploadFile
  \/ RemoveFile
  \/ ClickReset
  \/ ClickDownload
  \/ SubmitPrompt

Spec == Init /\ [][Next]_vars

(***************************************************************************)
(* Vocabulary of the properties.                                           *)
(***************************************************************************)
\* The latest run was given a prompt.
Prompted == run.user_prompt # None

\* The latest run sent a request to the remote service.
Called == run.payload # NoPayload

\* Every message item of the list has a content attribute.
WellFormed(output) ==
  \A k \in 1..Len(output) :
    output[k].type = "message" => "content" \in DOMAIN output[k]

\* The latest run received a well-formed list of output items.
Answered == Called /\ ~run.response.raised /\ WellFormed(run.response.output)

\* All content pieces of the message items of a list, in encounter order.
RECURSIVE MessagePieces(_)
MessagePieces(output) ==
  IF output = <<>> THEN <<>>
  ELSE (IF Head(output).type = "message" THEN Head(output).content ELSE <<>>)
         \o MessagePieces(Tail(output))

HasText(c) == "text" \in DOMAIN c /\ c.text # <<>>

\* t: the newline-join, trimmed, of the non-empty text pieces.
TextOf(output) ==
  LET pieces == SelectSeq(MessagePieces(output), HasText)
  IN Strip(Join(<< "\n" >>, [k \in 1..Len(pieces) |-> pieces[k].text]))

\* i: the result of the last image-generation-call item, None without one.
ImageOf(output) ==
  LET calls == { k \in 1..Len(output) :
                   output[k].type = "image_generation_call" }
  IN IF calls = {} THEN None
     ELSE output[CHOOSE k \in calls : \A j \in calls : j <= k].result

Present(i) == i # None /\ i # <<>>

\* The session is in the empty state.
Empty ==
  /\ original_image_b64 = None
  /\ last_image_b64 = None
  /\ chat_history = <<>>
  /\ chat_display = <<>>

(***************************************************************************)
(* C1.  The API transcript strictly alternates roles, starting with a user *)
(* turn: user at the 1st, 3rd, ... entry, assistant at the 2nd, 4th, ...   *)
(***************************************************************************)
C1_TranscriptAlternates ==
  \A k \in 1..Len(chat_history) :
    chat_history[k].role = IF k % 2 = 1 THEN "user" ELSE "assistant"

(***************************************************************************)
(* C2.  A run whose remote call fails, or whose response makes parsing     *)
(* fail, leaves the original image, the current image, the API transcript  *)
(* and the display log as they were before the submission.                 *)
(***************************************************************************)
C2_FailedTurnChangesNothing ==
  [][ (run'.outcome \in {"call_error", "parse_error"}) => Session' = Session ]_vars

\* A response whose second item or later is the malformed one: text or an
\* image had been collected when parsing failed.
C2_Witness ==
  /\ run.outcome = "parse_error"
  /\ Len(run.response.output) >= 2
  /\ \/ Present(ImageOf(<< run.response.output[1] >>))
     \/ ( /\ WellFormed(<< run.response.output[1] >>)
          /\ TextOf(<< run.response.output[1] >>) # <<>> )
  /\ original_image_b64 # None

(***************************************************************************)
(* C3.  A prompt submitted in the empty state fails with the missing-image *)
(* error: no request is built, no remote call is issued, the session is    *)
(* unchanged; the stop is for that run only: the next run ingests an       *)
(* upload as usual.                                                        *)
(***************************************************************************)
C3_PromptWithoutImage ==
  [][ /\ (run'.user_prompt # None /\ original_image_b64 = None)
        => /\ run'.outcome = "missing_image"
           /\ run'.payload = NoPayload
           /\ run'.response = NoResponse
           /\ Session' = Session
      /\ (run.outcome = "missing_image" /\ uploaded' # NoFile)
        => /\ run'.outcome = "done"
           /\ original_image_b64' = encode_b64(uploaded') ]_vars

C3_Witness ==
  /\ run.outcome = "missing_image"
  /\ Prompted
  /\ Empty

(***************************************************************************)
(* C4.  Once a click on "Reset session" has been handled, the session is   *)
(* in the empty state: no original image, no current image, both logs      *)
(* empty.                                                                  *)
(***************************************************************************)
C4_ResetGivesEmpty ==
  [][ ClickReset => Empty' ]_vars

C6_ApplyResponse ==
  [][ Answered' =>
        LET p == run'.user_prompt
            t == TextOf(run'.response.output)
            i == ImageOf(run'.response.output)
        IN /\ chat_history' =
                chat_history
                  \o << [role |-> "user", text |-> p] >>
                  \o (IF t # <<>> THEN << [role |-> "assistant", text |-> t] >>
                      ELSE <<>>)
           /\ chat_display' =
                chat_display
                  \o << [role |-> "user", kind |-> "text", data |-> p] >>
                  \o (IF t # <<>>
                      THEN << [role |-> "assistant", kind |-> "text", data |-> t] >>
                      ELSE <<>>)
                  \o (IF Present(i)
                      THEN << [role |-> "assistant", kind |-> "image", data |-> i] >>
                      ELSE <<>>)
           /\ last_image_b64' = IF Present(i) THEN i ELSE last_image_b64
           /\ original_image_b64' = original_image_b64 ]_vars

\* A response with two generated images, the second one kept, applied to a
\* session whose logs were not empty.
C6_Witness ==
  /\ Answered
  /\ Len(run.response.output) >= 2
  /\ run.response.output[1].type = "image_generation_call"
  /\ Present(run.response.output[1].result)
  /\ Present(ImageOf(run.response.output))
  /\ ImageOf(run.response.output) # run.response.output[1].result
  /\ last_image_b64 = ImageOf(run.response.output)
  /\ Len(chat_history) >= 2

(***************************************************************************)
(* C7.  After a run that ingested an upload, applied a response or handled *)
(* a reset, a download is offered exactly if the current image is present, *)
(* and its bytes are the decoding of the current image of that moment.     *)
(***************************************************************************)
C7_DownloadIsCurrent ==
  [][ ( \/ (UploadFile /\ original_image_b64' # original_image_b64)
        \/ Answered'
        \/ ClickReset )
      => /\ download'.offered <=> Present(last_image_b64')
         /\ download'.offered => download'.data = decode_b64(last_image_b64') ]_vars

(***************************************************************************)
(* C8.  The request built for prompt p in an active state has one turn per *)
(* API-transcript entry, in order, with that entry's role and text, tagged *)
(* input_text for a user turn and output_text for an assistant turn, then  *)
(* a final user turn holding the text p and an image reference built from  *)
(* the current image.  A prompt run on an active state builds it unless    *)
(* the page itself failed to render, and building it changes no session    *)
(* state: when the call then fails the session is as before.               *)
(***************************************************************************)
C8_Payload ==
  [][ /\ (run'.payload # NoPayload) =>
           LET payload == run'.payload
               n == Len(chat_history)
           IN /\ original_image_b64 # None
              /\ Len(payload) = n + 1
              /\ \A k \in 1..n :
                   /\ payload[k].role = chat_history[k].role
                   /\ payload[k].content =
                        << [ type |-> IF chat_history[k].role = "user"
                                      THEN "input_text" ELSE "output_text",
                             text |-> chat_history[k].text ] >>
              /\ payload[n + 1].role = "user"
              /\ payload[n + 1].content =
                   << [type |-> "input_text", text |-> run'.user_prompt],
                      [type      |-> "input_image",
                       image_url |-> << "data:image/jpeg;base64," >>
                                       \o last_image_b64] >>
              /\ run'.response.raised => Session' = Session
      /\ (run'.user_prompt # None /\ original_image_b64 # None
            /\ run'.payload = NoPayload)
           => run'.outcome = "decode_error" ]_vars

\* A request carrying a user turn and an assistant turn of history before
\* the current turn.
C8_Witness ==
  /\ Called
  /\ Len(run.payload) >= 3
  /\ run.payload[1].content[1].type = "input_text"
  /\ run.payload[2].content[1].type = "output_text"
  /\ Len(run.payload[Len(run.payload)].content) = 2

(***************************************************************************)
(* C9.  The API transcript is never longer than the display log.           *)
(***************************************************************************)
C9_TranscriptNotLonger ==
  Len(chat_history) <= Len(chat_display)

\* A conversation whose display log holds an image entry that the API
\* transcript lacks.
C9_Witness ==
  /\ Len(chat_history) >= 2
  /\ Len(chat_display) > Len(chat_history)

(***************************************************************************)
(* C10.  The original image is absent exactly if the current image is, and *)
(* then both logs are empty; no request is built from an absent current    *)
(* image; while the session stays active the current image never becomes   *)
(* absent, and a response whose image result is empty or missing leaves    *)
(* the current image unchanged.                                            *)
(***************************************************************************)
C10_ImagesTogether ==
  /\ [] ( /\ original_image_b64 = None <=> last_image_b64 = None
          /\ original_image_b64 = None => (chat_history = <<>> /\ chat_display = <<>>)
          /\ Called =>
               run.payload[Len(run.payload)].content[2].image_url
                 # << "data:image/jpeg;base64,", "N", "o", "n", "e" >> )
  /\ [][ /\ (original_image_b64 # None /\ original_image_b64' # None)
            => last_image_b64' # None
         /\ (Answered' /\ ~Present(ImageOf(run'.response.output)))
            => last_image_b64' = last_image_b64 ]_vars

\* A response whose last image-generation call has no result, after one
\* that had: the current image is still the one before the response.
C10_Witness ==
  /\ Answered
  /\ Len(run.response.output) >= 2
  /\ run.response.output[1].type = "image_generation_call"
  /\ Present(run.response.output[1].result)
  /\ run.response.output[2].type = "image_generation_call"
  /\ ~Present(ImageOf(run.response.output))
  /\ last_image_b64 = original_image_b64
  /\ last_image_b64 # None

====
